---- MODULE Spec2Model ----
(***************************************************************************)
(* The PDF command-line utilities of mcp-skills/examples/skills/           *)
(* pdf-processing/scripts: one run of one command, from argument parsing   *)
(* to process exit.  The third-party PDF libraries are modelled by the     *)
(* outcomes the scripts observe (a document loads or raises, a password is *)
(* accepted or not, a file opens for writing or raises).                   *)
(*                                                                         *)
(* Strings are sequences of one-character strings, so that splitting,      *)
(* integer parsing and file-name formatting are computed, not assumed.     *)
(***************************************************************************)
EXTENDS Integers, Sequences, FiniteSets, TLC

VARIABLES
    cmd,          \* which script runs
    pc,           \* position of the run in the script
    args,         \* the parsed command line (argparse namespace)
    env,          \* what the run finds on disk: the input documents
    locals,       \* local variables of the running function
    stderr,       \* the diagnostic stream: messages printed with file=sys.stderr
    stdout,       \* standard output
    written,      \* output files opened for writing and written, in order
    exit_status   \* process exit status, meaningful when pc = "exited"

vars == <<cmd, pc, args, env, locals, stderr, stdout, written, exit_status>>

(***************************************************************************)
(* Bounds of the model.                                                    *)
(***************************************************************************)
MaxLen == 4        \* longest enumerated page-range expression, in characters
MaxPages == 3      \* largest enumerated page count of an input document
MaxTokens == 3     \* most tokens of an expression built from the token pool
MaxDocPages == 2   \* most pages of a document that is copied whole
MaxInputs == 3     \* most input documents of a merge
MaxTables == 2     \* most tables found on a page
MaxFieldArgs == 2  \* most --field arguments of a fill

(***************************************************************************)
(* Python string and integer primitives used by the scripts.               *)
(***************************************************************************)
DigitChars == <<"0", "1", "2", "3", "4", "5", "6", "7", "8", "9">>

Digits == {DigitChars[i] : i \in 1..10}

DigitVal(c) == (CHOOSE i \in 1..10 : DigitChars[i] = c) - 1

\* c in s
Contains(s, c) == \E i \in 1..Len(s) : s[i] = c

\* s.split(sep): always at least one piece; "" gives [""]
RECURSIVE PySplit(_, _)
PySplit(s, sep) ==
    IF ~Contains(s, sep)
    THEN <<s>>
    ELSE LET i == CHOOSE k \in 1..Len(s) : s[k] = sep /\ \A j \in 1..(k-1) : s[j] # sep
         IN  <<SubSeq(s, 1, i - 1)>> \o PySplit(SubSeq(s, i + 1, Len(s)), sep)

\* int(s) succeeds: a non-empty run of decimal digits (leading zeros allowed);
\* the inputs enumerated hold no sign, blank or underscore
IsIntLiteral(s) == s # <<>> /\ \A i \in 1..Len(s) : s[i] \in Digits

\* int(s) for an accepted literal
RECURSIVE PyInt(_)
PyInt(s) ==
    IF s = <<>> THEN 0
    ELSE PyInt(SubSeq(s, 1, Len(s) - 1)) * 10 + DigitVal(s[Len(s)])

\* str(n) for n >= 0, as formatted into an f-string
RECURSIVE PyStr(_)
PyStr(n) ==
    IF n < 10 THEN <<DigitChars[n + 1]>>
    ELSE PyStr(n \div 10) \o <<DigitChars[(n % 10) + 1]>>

\* list(range(a, b)): a, a+1, ..., b-1; empty when a >= b
PyRange(a, b) == [i \in 1..(IF b > a THEN b - a ELSE 0) |-> a + i - 1]

\* the elements of a list, as a set
Elems(s) == {s[i] : i \in 1..Len(s)}

\* sorted(S) of a finite set of integers
RECURSIVE SortedOf(_)
SortedOf(S) ==
    IF S = {} THEN <<>>
    ELSE LET m == CHOOSE x \in S : \A y \in S : x <= y
         IN  <<m>> \o SortedOf(S \ {m})

\* a parser that returns the pages as gathered: return pages
PagesAsGathered(pages) == pages

\* a parser that drops the duplicates and keeps the order of first mention:
\* return list(dict.fromkeys(pages))
FirstMentions(pages) ==
    LET first == {i \in 1..Len(pages) : \A j \in 1..(i - 1) : pages[j] # pages[i]}
        Keep[k \in 0..Len(pages)] ==
            IF k = 0 THEN <<>>
            ELSE Keep[k - 1] \o (IF k \in first THEN <<pages[k]>> ELSE <<>>)
    IN  Keep[Len(pages)]

\* sorted(set(pages))
SortedSet(pages) == SortedOf(Elems(pages))

(***************************************************************************)
(* split_pdf.py: parse_page_ranges                                         *)
(***************************************************************************)
\* outcomes of a call: a returned value, or a raised exception
Returned(v) == [raised |-> "none", msg |-> "", value |-> v]

Raised(kind, m) == [raised |-> kind, msg |-> m, value |-> <<>>]

\* a bounds check that also rejects a range whose start is after its end
RangeOutOfBounds_Reversed(start, end, total_pages) ==
    start < 1 \/ end > total_pages \/ start > end

\* if start < 1 or end > total_pages
RangeOutOfBounds(start, end, total_pages) == start < 1 \/ end > total_pages

\* a bounds check that forgets the lower bound: if page > total_pages
PageOutOfBounds_UpperOnly(page, total_pages) == page > total_pages

\* if page < 1 or page > total_pages
PageOutOfBounds(page, total_pages) == page < 1 \/ page > total_pages

\* a range that leaves its end out: range(start, end)
RangePages_Exclusive(start, end) == PyRange(start, end)

\* range(start, end + 1)
RangePages(start, end) == PyRange(start, end + 1)

\* the body of the for loop for one part: the pages it adds, or the raise
ParsePart(part, total_pages) ==
    IF Contains(part, "-")
    THEN LET ops == PySplit(part, "-")
         IN  IF Len(ops) # 2
             THEN Raised("ValueError", "unpack")
             ELSE IF ~IsIntLiteral(ops[1]) \/ ~IsIntLiteral(ops[2])
             THEN Raised("ValueError", "invalid literal")
             ELSE IF RangeOutOfBounds(PyInt(ops[1]), PyInt(ops[2]), total_pages)
             THEN Raised("ValueError", "range out of bounds")
             ELSE Returned(RangePages(PyInt(ops[1]), PyInt(ops[2])))
    ELSE IF ~IsIntLiteral(part)
         THEN Raised("ValueError", "invalid literal")
         ELSE IF PageOutOfBounds(PyInt(part), total_pages)
         THEN Raised("ValueError", "page out of bounds")
         ELSE Returned(<<PyInt(part)>>)

\* a loop that stops at a bad part and keeps what it has gathered
ParseLoop_Partial(parts, i, pages, total_pages) ==
    LET good == {k \in 1..Len(parts) :
                    \A j \in 1..k : ParsePart(parts[j], total_pages).raised = "none"}
        Gather[k \in 0..Len(parts)] ==
            IF k = 0 THEN <<>> ELSE Gather[k - 1] \o ParsePart(parts[k], total_pages).value
    IN  Returned(SortedSet(Gather[Cardinality(good)]))

\* the for loop over the parts, from part i on, with the pages gathered so far
RECURSIVE ParseLoop(_, _, _, _)
ParseLoop(parts, i, pages, total_pages) ==
    IF i > Len(parts)
    THEN Returned(SortedSet(pages))
    ELSE LET r == ParsePart(parts[i], total_pages)
         IN  IF r.raised # "none" THEN r
             ELSE ParseLoop(parts, i + 1, pages \o r.value, total_pages)

parse_page_ranges(range_str, total_pages) ==
    ParseLoop(PySplit(range_str, ","), 1, <<>>, total_pages)

(***************************************************************************)
(* What every script's main() does with an outcome.                        *)
(***************************************************************************)
Diag(kind, text) == [kind |-> kind, text |-> text]

\* print(..., file=sys.stderr) and carry on at position next
Say(kind, text, next) ==
    /\ stderr' = Append(stderr, Diag(kind, text))
    /\ pc' = next

\* the same message printed once in each of n iterations of a loop
Repeat(kind, text, n) == [k \in 1..n |-> Diag(kind, text)]

\* a handler that prints the error and forgets sys.exit(1)
Fatal_NoExit(text) ==
    /\ stderr' = Append(stderr, Diag("error", text))
    /\ exit_status' = 0
    /\ pc' = "exited"

\* print(f"Error: ...", file=sys.stderr); sys.exit(1)
Fatal(text) ==
    /\ stderr' = Append(stderr, Diag("error", text))
    /\ exit_status' = 1
    /\ pc' = "exited"

\* the function returned to main(), which falls off its end: exit status 0
ExitZero(kind, text) ==
    /\ stderr' = Append(stderr, Diag(kind, text))
    /\ exit_status' = 0
    /\ pc' = "exited"

\* PdfReader(path) as main()'s handlers see it
OpenFails(doc) == doc.state # "ok"

OpenError(doc) ==
    IF doc.state = "missing" THEN "File not found" ELSE "Exception"

(***************************************************************************)
(* split_pdf.py: split_pdf and main                                        *)
(***************************************************************************)
\* if pages: (None and "" are both false)
PagesSupplied(a) == a.pages_given /\ a.pages # <<>>

\* a default selection that misses the last page: range(1, total_pages)
DefaultPages_OffByOne(total_pages) == PyRange(1, total_pages)

\* range(1, total_pages + 1)
DefaultPages(total_pages) == PyRange(1, total_pages + 1)

\* f"{prefix}{page_num}.pdf"
OutputName(prefix, page_num) == prefix \o PyStr(page_num) \o <<".", "p", "d", "f">>

\* reader.pages[k]: Python indexing, negative k counts from the end;
\* 0 stands for IndexError, otherwise the 1-based page of the input
PageAt(total_pages, k) ==
    IF k >= total_pages \/ k < 0 - total_pages THEN 0
    ELSE IF k < 0 THEN total_pages + k + 1
    ELSE k + 1

\* reader = PdfReader(input_pdf); total_pages = len(reader.pages);
\* os.makedirs(output_dir, exist_ok=True)
split_pdf_open ==
    /\ cmd = "split" /\ pc = "start"
    /\ IF OpenFails(env)
       THEN /\ Fatal(OpenError(env))
            /\ UNCHANGED locals
       ELSE /\ locals' = [locals EXCEPT !.total_pages = env.total_pages]
            /\ pc' = "select"
            /\ UNCHANGED <<stderr, exit_status>>
    /\ UNCHANGED <<cmd, args, env, stdout, written>>

\* Determine which pages to extract
split_pdf_select ==
    /\ cmd = "split" /\ pc = "select"
    /\ IF PagesSupplied(args)
       THEN LET r == parse_page_ranges(args.pages, locals.total_pages)
            IN  IF r.raised # "none"
                THEN /\ Fatal(r.msg)
                     /\ UNCHANGED locals
                ELSE /\ locals' = [locals EXCEPT !.page_numbers = r.value, !.i = 1]
                     /\ Say("progress", "Splitting", "loop")
                     /\ UNCHANGED exit_status
       ELSE /\ locals' = [locals EXCEPT !.page_numbers = DefaultPages(locals.total_pages),
                                       !.i = 1]
            /\ Say("progress", "Splitting", "loop")
            /\ UNCHANGED exit_status
    /\ UNCHANGED <<cmd, args, env, stdout, written>>

\* one iteration of: for page_num in page_numbers
split_pdf_write ==
    /\ cmd = "split" /\ pc = "loop" /\ locals.i <= Len(locals.page_numbers)
    /\ LET page_num == locals.page_numbers[locals.i]
           page == PageAt(locals.total_pages, page_num - 1)
       IN  IF page = 0
           THEN /\ Fatal("IndexError")
                /\ UNCHANGED <<locals, written>>
           ELSE \E opened \in BOOLEAN :
                IF opened
                THEN /\ written' = Append(written,
                            [name |-> OutputName(args.prefix, page_num), pages |-> <<page>>])
                     /\ locals' = [locals EXCEPT !.i = @ + 1]
                     /\ Say("created", "Created", "loop")
                     /\ UNCHANGED exit_status
                ELSE /\ Fatal("OSError")
                     /\ UNCHANGED <<locals, written>>
    /\ UNCHANGED <<cmd, args, env, stdout>>

\* the loop is over
split_pdf_finish ==
    /\ cmd = "split" /\ pc = "loop" /\ locals.i > Len(locals.page_numbers)
    /\ ExitZero("confirm", "Successfully split")
    /\ UNCHANGED <<cmd, args, env, locals, stdout, written>>

SplitNext == split_pdf_open \/ split_pdf_select \/ split_pdf_write \/ split_pdf_finish

(***************************************************************************)
(* Inputs of the split command.                                            *)
(***************************************************************************)
Alphabet == {"0", "1", "2", "3", "-", ",", "x"}

CharExprs == UNION {[1..k -> Alphabet] : k \in 0..MaxLen}

\* ",".join(tokens)
RECURSIVE Join(_)
Join(tokens) ==
    IF Len(tokens) = 0 THEN <<>>
    ELSE IF Len(tokens) = 1 THEN tokens[1]
    ELSE tokens[1] \o <<",">> \o Join(Tail(tokens))

TokenPool ==
    { <<"2">>, <<"0">>, <<"x">>,
      <<"1", "-", "2">>, <<"2", "-", "1">>, <<"2", "-", "3">> }

TokenExprs == {Join(t) : t \in UNION {[1..k -> TokenPool] : k \in 1..MaxTokens}}

Exprs == CharExprs \cup TokenExprs

Prefixes == {<<"p", "_">>, <<"1">>}

\* the expressions and page counts the documentation gives
Ex_1_3_5_7_9 == <<"1", "-", "3", ",", "5", ",", "7", "-", "9">>

Examples ==
    { [given |-> TRUE,  pages |-> Ex_1_3_5_7_9, total |-> 10],
      [given |-> TRUE,  pages |-> <<"5">>, total |-> 3],
      [given |-> TRUE,  pages |-> <<"2", "-", "1">>, total |-> 5],
      [given |-> TRUE,  pages |-> <<"1", "-", "3", ",", "2", "-", "4">>, total |-> 4],
      [given |-> FALSE, pages |-> <<>>, total |-> 4] }

SplitInputs ==
    Examples
    \cup {[given |-> TRUE, pages |-> e, total |-> n] : e \in Exprs, n \in 1..MaxPages}
    \cup {[given |-> FALSE, pages |-> <<>>, total |-> n] : n \in 1..MaxPages}

SplitLocals0 == [total_pages |-> 0, page_numbers |-> <<>>, i |-> 0]

Idle ==
    /\ stderr = <<>> /\ stdout = <<>> /\ written = <<>> /\ exit_status = 0

SplitInit ==
    /\ cmd = "split" /\ pc = "start"
    /\ \E in \in SplitInputs, pre \in Prefixes :
          /\ args = [pages_given |-> in.given, pages |-> in.pages, prefix |-> pre]
          /\ \/ env = [state |-> "ok", total_pages |-> in.total]
             \/ /\ in \in Examples
                /\ env \in {[state |-> s, total_pages |-> in.total] : s \in {"missing", "corrupt"}}
    /\ locals = SplitLocals0
    /\ Idle

SpecSplit == SplitInit /\ [][SplitNext]_vars

(***************************************************************************)
(* Documents on disk, for the commands that read whole documents: a        *)
(* document is readable with some pages, missing, or corrupt.  Its pages   *)
(* are named by the document and the page number.                          *)
(***************************************************************************)
DocPages(name, n) == [k \in 1..n |-> <<name, k>>]

DocStates ==
    {[state |-> "ok", pages |-> n] : n \in 1..MaxDocPages}
    \cup {[state |-> "missing", pages |-> 0], [state |-> "corrupt", pages |-> 0]}

(***************************************************************************)
(* merge_pdfs.py                                                           *)
(***************************************************************************)
\* a merger that puts every appended document first: merger.merge(0, pdf_file)
MergerPrepend(merger, pages) == pages \o merger

\* merger.append(pdf_file), for a document that loads
MergerAppend(merger, pages) == merger \o pages

\* if args.output in args.inputs
merge_main_check ==
    /\ cmd = "merge" /\ pc = "start"
    /\ IF Contains(args.inputs, args.output)
       THEN /\ Fatal("Output file cannot be one of the input files")
            /\ UNCHANGED locals
       ELSE /\ locals' = [locals EXCEPT !.i = 1]
            /\ pc' = "loop"
            /\ UNCHANGED <<stderr, exit_status>>
    /\ UNCHANGED <<cmd, args, env, stdout, written>>

\* one iteration of: for i, pdf_file in enumerate(pdf_files)
merge_pdfs_add ==
    /\ cmd = "merge" /\ pc = "loop" /\ locals.i <= Len(args.inputs)
    /\ LET pdf_file == args.inputs[locals.i]
           doc == env[pdf_file]
       IN  IF OpenFails(doc)
           THEN /\ stderr' = stderr \o <<Diag("progress", "Adding"),
                                          Diag("warning", "Failed to add")>>
                /\ locals' = [locals EXCEPT !.i = @ + 1]
           ELSE /\ stderr' = Append(stderr, Diag("progress", "Adding"))
                /\ locals' = [locals EXCEPT
                                 !.merger = MergerAppend(@, DocPages(pdf_file, doc.pages)),
                                 !.i = @ + 1]
    /\ UNCHANGED <<cmd, pc, args, env, stdout, written, exit_status>>

\* with open(output_path, 'wb') as output: merger.write(output)
merge_pdfs_write ==
    /\ cmd = "merge" /\ pc = "loop" /\ locals.i > Len(args.inputs)
    /\ \E opened \in BOOLEAN :
          IF opened
          THEN /\ written' = Append(written, [name |-> args.output, pages |-> locals.merger])
               /\ stderr' = stderr \o <<Diag("progress", "Writing merged PDF"),
                                         Diag("confirm", "Successfully merged")>>
               /\ exit_status' = 0
               /\ pc' = "exited"
          ELSE /\ stderr' = stderr \o <<Diag("progress", "Writing merged PDF"),
                                         Diag("error", "OSError")>>
               /\ exit_status' = 1
               /\ pc' = "exited"
               /\ UNCHANGED written
    /\ UNCHANGED <<cmd, args, env, locals, stdout>>

MergeNext == merge_main_check \/ merge_pdfs_add \/ merge_pdfs_write

FileNames == {"a", "b", "c"}

MergeInit ==
    /\ cmd = "merge" /\ pc = "start"
    /\ env \in [FileNames -> DocStates]
    /\ \E ins \in UNION {[1..k -> FileNames] : k \in 1..MaxInputs},
          out \in {"a", "out"} :
          args = [output |-> out, inputs |-> ins]
    /\ locals = [i |-> 0, merger |-> <<>>]
    /\ Idle

SpecMerge == MergeInit /\ [][MergeNext]_vars

(***************************************************************************)
(* protect_pdf.py                                                          *)
(***************************************************************************)
\* reader.decrypt(password): 0 not decrypted, 1 user password, 2 owner password
PdfDecrypt(doc, password) ==
    IF password = doc.user_pw THEN 1
    ELSE IF password = doc.owner_pw THEN 2
    ELSE 0

\* a test written for the user password alone: if reader.decrypt(password) != 1
DecryptRefused_UserOnly(result) == result # 1

\* if not reader.decrypt(password)
DecryptRefused(result) == result = 0

\* reader = PdfReader(input_pdf)
protect_open ==
    /\ cmd = "protect" /\ pc = "start"
    /\ IF OpenFails(env)
       THEN Fatal(OpenError(env))
       ELSE /\ pc' = args.action
            /\ UNCHANGED <<stderr, exit_status>>
    /\ UNCHANGED <<cmd, args, env, locals, stdout, written>>

\* encrypt_pdf up to writer.encrypt(password); the pages of a document that
\* is still encrypted cannot be read
encrypt_pdf_copy ==
    /\ cmd = "protect" /\ pc = "encrypt"
    /\ IF env.encrypted
       THEN /\ Fatal("Exception")
            /\ UNCHANGED locals
       ELSE /\ locals' = [writer |-> DocPages("in", env.pages), password |-> args.password]
            /\ Say("progress", "Encrypting", "write")
            /\ UNCHANGED exit_status
    /\ UNCHANGED <<cmd, args, env, stdout, written>>

\* decrypt_pdf up to the writer holding the pages
decrypt_pdf_copy ==
    /\ cmd = "protect" /\ pc = "decrypt"
    /\ IF ~env.encrypted
       THEN /\ locals' = [writer |-> DocPages("in", env.pages), password |-> ""]
            /\ Say("warning", "PDF is not encrypted", "write")
            /\ UNCHANGED exit_status
       ELSE IF DecryptRefused(PdfDecrypt(env, args.password))
       THEN /\ stderr' = stderr \o <<Diag("progress", "Decrypting PDF"),
                                      Diag("error", "Incorrect password")>>
            /\ exit_status' = 1
            /\ pc' = "exited"
            /\ UNCHANGED locals
       ELSE /\ locals' = [writer |-> DocPages("in", env.pages), password |-> ""]
            /\ Say("progress", "Decrypting PDF", "write")
            /\ UNCHANGED exit_status
    /\ UNCHANGED <<cmd, args, env, stdout, written>>

\* with open(output_pdf, 'wb') as output: writer.write(output)
protect_write ==
    /\ cmd = "protect" /\ pc = "write"
    /\ \E opened \in BOOLEAN :
          IF opened
          THEN /\ written' = Append(written, [name |-> "output", pages |-> locals.writer,
                                               password |-> locals.password])
               /\ ExitZero("confirm", IF args.action = "encrypt"
                                      THEN "PDF encrypted and saved"
                                      ELSE "PDF decrypted and saved")
          ELSE /\ Fatal("OSError")
               /\ UNCHANGED written
    /\ UNCHANGED <<cmd, args, env, locals, stdout>>

ProtectNext == protect_open \/ encrypt_pdf_copy \/ decrypt_pdf_copy \/ protect_write

Passwords == {"alpha", "beta", "gamma"}

ProtectDocs ==
    {[state |-> d.state, pages |-> d.pages, encrypted |-> FALSE,
      user_pw |-> "", owner_pw |-> ""] : d \in DocStates}
    \cup {[state |-> "ok", pages |-> n, encrypted |-> TRUE, user_pw |-> u, owner_pw |-> o] :
            n \in 1..MaxDocPages, u \in Passwords, o \in Passwords}

ProtectInit ==
    /\ cmd = "protect" /\ pc = "start"
    /\ env \in ProtectDocs
    /\ args \in [action : {"encrypt", "decrypt"}, password : Passwords]
    /\ locals = [writer |-> <<>>, password |-> ""]
    /\ Idle

SpecProtect == ProtectInit /\ [][ProtectNext]_vars

(***************************************************************************)
(* add_watermark.py.  Opacity is counted in tenths: 10 stands for 1.0.     *)
(***************************************************************************)
DefaultFontSize == 60

\* create_watermark(text, opacity, rotation, font_size): what is drawn
create_watermark(text, opacity, rotation, font_size) ==
    [text |-> text, font |-> "Helvetica", font_size |-> font_size,
     gray |-> opacity, rotation |-> rotation]

\* watermark = create_watermark(watermark_text, opacity, rotation)
add_watermark_create(watermark_text, opacity, rotation) ==
    create_watermark(watermark_text, opacity, rotation, DefaultFontSize)

\* if not 0 <= args.opacity <= 1
watermark_main_validate ==
    /\ cmd = "watermark" /\ pc = "start"
    /\ IF ~(0 <= args.opacity /\ args.opacity <= 10)
       THEN Fatal("Opacity must be between 0.0 and 1.0")
       ELSE /\ pc' = "open"
            /\ UNCHANGED <<stderr, exit_status>>
    /\ UNCHANGED <<cmd, args, env, locals, stdout, written>>

\* add_watermark up to the writer holding every page merged with the watermark
add_watermark_pages ==
    /\ cmd = "watermark" /\ pc = "open"
    /\ IF OpenFails(env)
       THEN /\ Fatal(OpenError(env))
            /\ UNCHANGED locals
       ELSE LET watermark == add_watermark_create(args.text, args.opacity, args.rotation)
            IN  /\ locals' = [writer |-> [k \in 1..env.pages |->
                                  [page |-> <<"in", k>>, merged |-> watermark]]]
                /\ stderr' = stderr \o <<Diag("progress", "Creating watermark"),
                                          Diag("progress", "Adding watermark")>>
                                      \o Repeat("progress", "Processing page", env.pages)
                /\ pc' = "write"
                /\ UNCHANGED exit_status
    /\ UNCHANGED <<cmd, args, env, stdout, written>>

\* with open(output_pdf, 'wb') as output: writer.write(output)
add_watermark_write ==
    /\ cmd = "watermark" /\ pc = "write"
    /\ \E opened \in BOOLEAN :
          IF opened
          THEN /\ written' = Append(written, [name |-> "output", pages |-> locals.writer])
               /\ stderr' = stderr \o <<Diag("progress", "Writing watermarked PDF"),
                                         Diag("confirm", "Successfully added watermark")>>
               /\ exit_status' = 0
               /\ pc' = "exited"
          ELSE /\ stderr' = stderr \o <<Diag("progress", "Writing watermarked PDF"),
                                         Diag("error", "OSError")>>
               /\ exit_status' = 1
               /\ pc' = "exited"
               /\ UNCHANGED written
    /\ UNCHANGED <<cmd, args, env, locals, stdout>>

WatermarkNext == watermark_main_validate \/ add_watermark_pages \/ add_watermark_write

WatermarkInit ==
    /\ cmd = "watermark" /\ pc = "start"
    /\ env \in DocStates
    /\ args \in [text : {"DRAFT"}, opacity : {-1, 0, 5, 10, 11},
                 rotation : {0, 45}, font_size : {20, DefaultFontSize}]
    /\ locals = [writer |-> <<>>]
    /\ Idle

(***************************************************************************)
(* extract_tables.py.  A table is named by its page and its rank on it.    *)
(***************************************************************************)
\* page.extract_tables(table_settings), for a page holding n tables
extract_tables_from_page(page, n) == [k \in 1..n |-> <<page, k>>]

\* the tables of pages 1..upto, page after page
RECURSIVE TablesUpTo(_, _)
TablesUpTo(found, upto) ==
    IF upto = 0 THEN <<>>
    ELSE TablesUpTo(found, upto - 1) \o extract_tables_from_page(upto, found[upto])

\* what extract_tables prints before it returns
RECURSIVE PagesProgress(_, _)
PagesProgress(found, upto) ==
    IF upto = 0 THEN <<>>
    ELSE PagesProgress(found, upto - 1)
         \o <<Diag("progress", "Processing page")>>
         \o (IF found[upto] > 0 THEN <<Diag("progress", "Found table(s)")>> ELSE <<>>)

ExtractProgress(doc, a) ==
    IF a.page_given THEN <<Diag("progress", "Extracting tables from page")>>
    ELSE IF a.all_pages THEN PagesProgress(doc.found, Len(doc.found))
    ELSE <<Diag("progress", "Extracting tables from first page")>>

\* extract_tables: the value returned, or the raise
extract_tables(doc, a) ==
    IF OpenFails(doc) THEN Raised(OpenError(doc), OpenError(doc))
    ELSE IF a.page_given
    THEN IF a.page < 1 \/ a.page > Len(doc.found)
         THEN Raised("ValueError", "Page out of range")
         ELSE Returned(extract_tables_from_page(a.page, doc.found[a.page]))
    ELSE IF a.all_pages
    THEN Returned(TablesUpTo(doc.found, Len(doc.found)))
    ELSE Returned(extract_tables_from_page(1, doc.found[1]))

\* tables = extract_tables(...)
tables_main_extract ==
    /\ cmd = "tables" /\ pc = "start"
    /\ LET r == extract_tables(env, args)
       IN  IF r.raised # "none"
           THEN /\ Fatal(r.msg)
                /\ UNCHANGED locals
           ELSE /\ locals' = [tables |-> r.value]
                /\ stderr' = stderr \o ExtractProgress(env, args)
                /\ pc' = "save"
                /\ UNCHANGED exit_status
    /\ UNCHANGED <<cmd, args, env, stdout, written>>

\* save_tables_to_csv(tables, args.output)
save_tables_to_csv ==
    /\ cmd = "tables" /\ pc = "save"
    /\ IF locals.tables = <<>>
       THEN /\ ExitZero("warning", "No tables found")
            /\ UNCHANGED written
       ELSE \E opened \in BOOLEAN :
            IF opened
            THEN /\ written' = Append(written, [name |-> "output", table |-> locals.tables[1]])
                 /\ stderr' = stderr \o
                        (<<Diag("confirm", "Saved rows")>> \o
                         IF Len(locals.tables) > 1
                         THEN <<Diag("note", "saved first one only")>> ELSE <<>>)
                 /\ exit_status' = 0
                 /\ pc' = "exited"
            ELSE /\ Fatal("OSError")
                 /\ UNCHANGED written
    /\ UNCHANGED <<cmd, args, env, locals, stdout>>

TablesNext == tables_main_extract \/ save_tables_to_csv

TableDocs ==
    {[state |-> "ok", found |-> f] :
        f \in UNION {[1..n -> 0..MaxTables] : n \in 1..MaxDocPages}}
    \cup {[state |-> st, found |-> <<>>] : st \in {"missing", "corrupt"}}

TablesInit ==
    /\ cmd = "tables" /\ pc = "start"
    /\ env \in TableDocs
    /\ args \in [page_given : BOOLEAN, page : 0..(MaxDocPages + 1), all_pages : BOOLEAN,
                 strategy : {"lines", "text"}]
    /\ ~args.page_given => args.page = 0
    /\ locals = [tables |-> <<>>]
    /\ Idle

(***************************************************************************)
(* extract_text.py.  env.text[k] tells whether page k yields any text.     *)
(***************************************************************************)
\* the "--- Page N ---" blocks of extract_text: pages without text are left out
RECURSIVE TextBlocks(_, _)
TextBlocks(text, upto) ==
    IF upto = 0 THEN <<>>
    ELSE TextBlocks(text, upto - 1) \o (IF text[upto] THEN <<upto>> ELSE <<>>)

\* the blocks of extract_text_ocr: one for every page image
OcrBlocks(text) == [k \in 1..Len(text) |-> k]

\* text = extract_text_ocr(args.input) or extract_text(args.input, layout)
text_main_extract ==
    /\ cmd = "text" /\ pc = "start"
    /\ IF args.ocr /\ ~env.ocr_installed
       THEN /\ stderr' = stderr \o <<Diag("error", "OCR requires pdf2image and pytesseract"),
                                      Diag("error", "Install with pip")>>
            /\ exit_status' = 1
            /\ pc' = "exited"
            /\ UNCHANGED locals
       ELSE IF OpenFails(env)
       THEN /\ Fatal(IF args.ocr THEN "Exception" ELSE OpenError(env))
            /\ UNCHANGED locals
       ELSE /\ locals' = [text |-> IF args.ocr THEN OcrBlocks(env.text)
                                   ELSE TextBlocks(env.text, Len(env.text))]
            /\ stderr' = stderr
                   \o (IF args.ocr THEN <<Diag("progress", "Converting PDF to images")>>
                       ELSE <<>>)
                   \o Repeat("progress", "Processing page", Len(env.text))
            /\ pc' = "write"
            /\ UNCHANGED exit_status
    /\ UNCHANGED <<cmd, args, env, stdout, written>>

\* with open(args.output, 'w', encoding='utf-8') as f: f.write(text)
text_main_write ==
    /\ cmd = "text" /\ pc = "write"
    /\ \E opened \in BOOLEAN :
          IF opened
          THEN /\ written' = Append(written, [name |-> "output", text |-> locals.text])
               /\ ExitZero("confirm", "Text extracted")
          ELSE /\ Fatal("OSError")
               /\ UNCHANGED written
    /\ UNCHANGED <<cmd, args, env, locals, stdout>>

TextNext == text_main_extract \/ text_main_write

TextDocs ==
    {[state |-> "ok", text |-> t, ocr_installed |-> o] :
        t \in UNION {[1..n -> BOOLEAN] : n \in 1..MaxDocPages}, o \in BOOLEAN}
    \cup {[state |-> st, text |-> <<>>, ocr_installed |-> o] :
            st \in {"missing", "corrupt"}, o \in BOOLEAN}

TextInit ==
    /\ cmd = "text" /\ pc = "start"
    /\ env \in TextDocs
    /\ args \in [layout : BOOLEAN, ocr : BOOLEAN]
    /\ locals = [text |-> <<>>]
    /\ Idle

(***************************************************************************)
(* fill_form.py.  env.fields are the names of the document's text fields,  *)
(* env.json what --json finds, args.field the --field arguments.           *)
(***************************************************************************)
\* name, value = field_arg.split('=', 1)
FieldName(field_arg) ==
    SubSeq(field_arg, 1,
           (CHOOSE k \in 1..Len(field_arg) :
                field_arg[k] = "=" /\ \A j \in 1..(k - 1) : field_arg[j] # "=") - 1)

\* parse_field_args: the names given, or the exit on an argument without '='
parse_field_args(field_args) ==
    IF \E k \in 1..Len(field_args) : ~Contains(field_args[k], "=")
    THEN Raised("SystemExit", "Invalid field format")
    ELSE Returned({FieldName(field_args[k]) : k \in 1..Len(field_args)})

\* if not args.command: parser.print_help(); sys.exit(1)
form_main_command ==
    /\ cmd = "form" /\ pc = "start"
    /\ IF args.command = "none"
       THEN /\ stdout' = Append(stdout, "help")
            /\ exit_status' = 1
            /\ pc' = "exited"
       ELSE /\ pc' = args.command
            /\ UNCHANGED <<stdout, exit_status>>
    /\ UNCHANGED <<cmd, args, env, locals, stderr, written>>

\* list_form_fields(args.input)
list_form_fields ==
    /\ cmd = "form" /\ pc = "list"
    /\ IF OpenFails(env)
       THEN /\ Fatal(OpenError(env))
            /\ UNCHANGED stdout
       ELSE IF ~env.fields_readable
       THEN /\ Fatal("Error reading form fields")
            /\ UNCHANGED stdout
       ELSE IF env.fields = {}
       THEN /\ ExitZero("notice", "No form fields found in PDF")
            /\ UNCHANGED stdout
       ELSE /\ stdout' = stdout \o <<"Found form fields", env.fields>>
            /\ exit_status' = 0
            /\ pc' = "exited"
            /\ UNCHANGED stderr
    /\ UNCHANGED <<cmd, args, env, locals, written>>

\* Get field data from JSON file or command line
form_main_field_data ==
    /\ cmd = "form" /\ pc = "fill"
    /\ IF args.json # "absent"
       THEN IF args.json = "ok"
            THEN /\ locals' = [locals EXCEPT !.field_data = env.json_data]
                 /\ pc' = "fill_form"
                 /\ UNCHANGED <<stderr, exit_status>>
            ELSE /\ Fatal(IF args.json = "missing" THEN "File not found" ELSE "Exception")
                 /\ UNCHANGED locals
       ELSE IF args.field # <<>>
       THEN LET r == parse_field_args(args.field)
            IN  IF r.raised # "none"
                THEN /\ Fatal(r.msg)
                     /\ UNCHANGED locals
                ELSE /\ locals' = [locals EXCEPT !.field_data = r.value]
                     /\ pc' = "fill_form"
                     /\ UNCHANGED <<stderr, exit_status>>
       ELSE /\ Fatal("Provide field data via --json or --field")
            /\ UNCHANGED locals
    /\ UNCHANGED <<cmd, args, env, stdout, written>>

\* what fill_form_fields prints before it copies the pages
FillProgress(field_data, existing_fields) ==
    <<Diag("progress", "Filling form fields")>>
    \o (IF field_data \ existing_fields # {}
        THEN <<Diag("warning", "Unknown fields")>> ELSE <<>>)

\* fill_form_fields up to writer.update_page_form_field_values; on a document
\* without a form the library either raises or changes nothing
fill_form_fields_update ==
    /\ cmd = "form" /\ pc = "fill_form"
    /\ IF OpenFails(env)
       THEN /\ Fatal(OpenError(env))
            /\ UNCHANGED locals
       ELSE IF ~env.fields_readable
       THEN /\ Fatal("Exception")
            /\ UNCHANGED locals
       ELSE \E raises \in {FALSE, env.fields = {}} :
            IF raises
            THEN /\ stderr' = stderr \o FillProgress(locals.field_data, env.fields)
                                      \o <<Diag("error", "Exception")>>
                 /\ exit_status' = 1
                 /\ pc' = "exited"
                 /\ UNCHANGED locals
            ELSE /\ locals' = [locals EXCEPT !.filled = locals.field_data \cap env.fields]
                 /\ stderr' = stderr \o FillProgress(locals.field_data, env.fields)
                 /\ pc' = "write"
                 /\ UNCHANGED exit_status
    /\ UNCHANGED <<cmd, args, env, stdout, written>>

\* with open(output_pdf, 'wb') as output: writer.write(output)
fill_form_fields_write ==
    /\ cmd = "form" /\ pc = "write"
    /\ \E opened \in BOOLEAN :
          IF opened
          THEN /\ written' = Append(written, [name |-> "output", filled |-> locals.filled])
               /\ ExitZero("confirm", "Form filled and saved")
          ELSE /\ Fatal("OSError")
               /\ UNCHANGED written
    /\ UNCHANGED <<cmd, args, env, locals, stdout>>

FormNext ==
    \/ form_main_command \/ list_form_fields \/ form_main_field_data
    \/ fill_form_fields_update \/ fill_form_fields_write

FieldArgPool == { <<"n", "=", "v">>, <<"m", "=">>, <<"n">> }

FieldNames == { <<"n">>, <<"m">> }

FormDocs ==
    {[state |-> "ok", fields |-> f, fields_readable |-> r, json_data |-> j] :
        f \in SUBSET FieldNames, r \in BOOLEAN, j \in SUBSET FieldNames}
    \cup {[state |-> st, fields |-> {}, fields_readable |-> TRUE, json_data |-> {}] :
            st \in {"missing", "corrupt"}}

FormInit ==
    /\ cmd = "form" /\ pc = "start"
    /\ env \in FormDocs
    /\ args \in [command : {"none", "list", "fill"},
                 json : {"absent", "ok", "missing", "invalid"},
                 field : UNION {[1..k -> FieldArgPool] : k \in 0..MaxFieldArgs}]
    /\ locals = [field_data |-> {}, filled |-> {}]
    /\ Idle

(***************************************************************************)
(* Any run of any command.                                                 *)
(***************************************************************************)
CommandInputs ==
    Examples
    \cup {[given |-> TRUE, pages |-> e, total |-> n] : e \in TokenExprs, n \in 1..MaxPages}
    \cup {[given |-> g, pages |-> <<>>, total |-> n] : g \in BOOLEAN, n \in 1..MaxPages}

CommandSplitInit ==
    /\ cmd = "split" /\ pc = "start"
    /\ \E in \in CommandInputs :
          /\ args = [pages_given |-> in.given, pages |-> in.pages, prefix |-> <<"p", "_">>]
          /\ env \in {[state |-> st, total_pages |-> in.total] :
                         st \in {"ok", "missing", "corrupt"}}
    /\ locals = SplitLocals0
    /\ Idle

Init ==
    \/ CommandSplitInit
    \/ MergeInit
    \/ ProtectInit
    \/ WatermarkInit
    \/ TablesInit
    \/ TextInit
    \/ FormInit

Next ==
    \/ SplitNext
    \/ MergeNext
    \/ ProtectNext
    \/ WatermarkNext
    \/ TablesNext
    \/ TextNext
    \/ FormNext

Spec == Init /\ [][Next]_vars

(***************************************************************************)
(* The page-range notation, as the specification defines it.               *)
(***************************************************************************)
Tokens(e) == PySplit(e, ",")

IsSingleTok(t) == ~Contains(t, "-") /\ IsIntLiteral(t)

IsRangeTok(t) ==
    /\ Contains(t, "-")
    /\ Len(PySplit(t, "-")) = 2
    /\ IsIntLiteral(PySplit(t, "-")[1])
    /\ IsIntLiteral(PySplit(t, "-")[2])

TokStart(t) == PyInt(PySplit(t, "-")[1])

TokEnd(t) == PyInt(PySplit(t, "-")[2])

MalformedTok(t) == ~IsSingleTok(t) /\ ~IsRangeTok(t)

OutOfRangeTok(t, n) ==
    \/ IsSingleTok(t) /\ (PyInt(t) < 1 \/ PyInt(t) > n)
    \/ IsRangeTok(t) /\ (TokStart(t) < 1 \/ TokEnd(t) > n)

DegenerateTok(t, n) ==
    IsRangeTok(t) /\ TokStart(t) > TokEnd(t) /\ TokStart(t) >= 1 /\ TokEnd(t) <= n

BadTok(t, n) == MalformedTok(t) \/ OutOfRangeTok(t, n)

Contribution(t) == IF IsSingleTok(t) THEN {PyInt(t)} ELSE TokStart(t)..TokEnd(t)

StrictlyAscending(p) == \A i \in 1..(Len(p) - 1) : p[i] < p[i + 1]

RemoveAt(q, k) == SubSeq(q, 1, k - 1) \o SubSeq(q, k + 1, Len(q))

RangeErrors == {"range out of bounds", "page out of bounds"}

ParseErrors == {"invalid literal", "unpack"}

\* a split run with a readable input and a non-empty expression, past the
\* resolution of the expression
SelectDone ==
    /\ cmd = "split" /\ env.state = "ok" /\ PagesSupplied(args)
    /\ pc \notin {"start", "select"}

\* ... and nothing else done since
JustSelected ==
    /\ SelectDone
    /\ \/ pc = "loop" /\ locals.i = 1
       \/ pc = "exited" /\ Len(stderr) = 1

\* what parse_page_ranges did, as the run shows it
SelectOutcome ==
    IF pc = "loop" THEN Returned(locals.page_numbers)
    ELSE Raised("ValueError", stderr[1].text)

(***************************************************************************)
(* C1: whenever parse_page_ranges returns, the returned sequence is        *)
(* strictly ascending (so without duplicates) and each of its elements n   *)
(* satisfies 1 <= n <= pageCount.                                          *)
(***************************************************************************)
C1_ResolvedAscendingInRange ==
    (cmd = "split" /\ pc = "loop" /\ PagesSupplied(args)) =>
        LET p == locals.page_numbers
        IN  /\ StrictlyAscending(p)
            /\ \A i \in 1..Len(p) : 1 <= p[i] /\ p[i] <= locals.total_pages

\* an expression with more tokens than pages, resolved to two pages or more
C1_Witness ==
    /\ cmd = "split" /\ pc = "loop" /\ PagesSupplied(args)
    /\ Len(locals.page_numbers) >= 2
    /\ Len(Tokens(args.pages)) > Len(locals.page_numbers)

(***************************************************************************)
(* C2: a successful parse_page_ranges returns exactly the ascending        *)
(* enumeration of the union of the token contributions ({n} for a token n, *)
(* start..end for a token start-end); "1-3,5,7-9" with 10 pages gives      *)
(* 1,2,3,5,7,8,9.                                                          *)
(***************************************************************************)
C2_UnionOfContributions ==
    (cmd = "split" /\ pc = "loop" /\ PagesSupplied(args)) =>
        LET p == locals.page_numbers
            t == Tokens(args.pages)
        IN  /\ Elems(p) = UNION {Contribution(t[k]) : k \in 1..Len(t)}
            /\ StrictlyAscending(p)
            /\ (args.pages = Ex_1_3_5_7_9 /\ locals.total_pages = 10)
                   => p = <<1, 2, 3, 5, 7, 8, 9>>

C2_Witness ==
    /\ cmd = "split" /\ pc = "loop"
    /\ args.pages = Ex_1_3_5_7_9 /\ locals.total_pages = 10
    /\ Len(locals.page_numbers) = 7

(***************************************************************************)
(* C3, as claimed: whenever some token is out of range, parse_page_ranges  *)
(* fails with an out-of-range error, whatever the other tokens are.        *)
(***************************************************************************)
C3_Original ==
    (SelectDone /\ \E k \in 1..Len(Tokens(args.pages)) :
                       OutOfRangeTok(Tokens(args.pages)[k], locals.total_pages)) =>
        /\ pc = "exited" /\ exit_status = 1
        /\ stderr[1].kind = "error" /\ stderr[1].text \in RangeErrors

(***************************************************************************)
(* C3, amended: whenever some token is out of range, parse_page_ranges     *)
(* fails and returns no result; the error is the out-of-range error of the *)
(* first such token unless a malformed token comes before it, and then it  *)
(* is the parse error of that token.  "5" with 3 pages fails out of range. *)
(***************************************************************************)
C3_FailsOnOutOfRange ==
    (SelectDone /\ \E k \in 1..Len(Tokens(args.pages)) :
                       OutOfRangeTok(Tokens(args.pages)[k], locals.total_pages)) =>
        LET t == Tokens(args.pages)
            n == locals.total_pages
            f == CHOOSE k \in 1..Len(t) :
                     BadTok(t[k], n) /\ \A j \in 1..(k - 1) : ~BadTok(t[j], n)
        IN  /\ pc = "exited" /\ exit_status = 1 /\ written = <<>>
            /\ Len(stderr) = 1 /\ stderr[1].kind = "error"
            /\ IF MalformedTok(t[f])
               THEN stderr[1].text \in ParseErrors
               ELSE stderr[1].text \in RangeErrors
            /\ (args.pages = <<"5">> /\ n = 3) => stderr[1].text = "page out of bounds"

\* an out-of-range token after a valid one has made the run fail
C3_Witness ==
    /\ SelectDone /\ pc = "exited"
    /\ LET t == Tokens(args.pages)
       IN  /\ Len(t) >= 2
           /\ ~BadTok(t[1], locals.total_pages)
           /\ OutOfRangeTok(t[2], locals.total_pages)
    /\ stderr[1].text \in RangeErrors

(***************************************************************************)
(* C4: a range token start-end with start > end, start >= 1 and            *)
(* end <= pageCount does not fail and contributes nothing: the outcome of  *)
(* an expression holding such a token is the outcome of the expression     *)
(* without it, and "2-1" with 5 pages gives the empty sequence.            *)
(***************************************************************************)
C4_DegenerateRangeIsEmpty ==
    JustSelected =>
        LET t == Tokens(args.pages)
            n == locals.total_pages
        IN  /\ \A k \in 1..Len(t) :
                   DegenerateTok(t[k], n) =>
                       SelectOutcome =
                           IF Len(t) = 1 THEN Returned(<<>>)
                           ELSE parse_page_ranges(Join(RemoveAt(t, k)), n)
            /\ (args.pages = <<"2", "-", "1">> /\ n = 5) =>
                   pc = "loop" /\ locals.page_numbers = <<>>

\* a degenerate range beside tokens that select pages
C4_Witness ==
    /\ JustSelected /\ pc = "loop"
    /\ locals.page_numbers # <<>>
    /\ \E k \in 1..Len(Tokens(args.pages)) :
           DegenerateTok(Tokens(args.pages)[k], locals.total_pages)

(***************************************************************************)
(* C5: a split run given a (non-empty) expression with a malformed or an   *)
(* out-of-range token, at any position, never writes a page file, never    *)
(* reaches the page loop, and ends with a non-zero exit status after an    *)
(* error diagnostic.                                                       *)
(***************************************************************************)
C5_BadExpressionIsFatal ==
    (/\ cmd = "split" /\ PagesSupplied(args)
     /\ \E k \in 1..Len(Tokens(args.pages)) :
            BadTok(Tokens(args.pages)[k], env.total_pages)) =>
        /\ written = <<>>
        /\ pc \in {"start", "select", "exited"}
        /\ pc = "exited" =>
               /\ exit_status # 0
               /\ stderr # <<>> /\ stderr[Len(stderr)].kind = "error"

\* a run ended by a bad token that follows a valid, page-selecting token
C5_Witness ==
    /\ cmd = "split" /\ PagesSupplied(args) /\ env.state = "ok"
    /\ pc = "exited" /\ exit_status = 1
    /\ LET t == Tokens(args.pages)
       IN  /\ Len(t) >= 2
           /\ ~BadTok(t[1], env.total_pages) /\ Contribution(t[1]) # {}
           /\ BadTok(t[Len(t)], env.total_pages)

(***************************************************************************)
(* C6: a split run that ends with status zero has written exactly one file *)
(* per page of the selection, in ascending page order, each named prefix + *)
(* page number + ".pdf" and holding that page; the selection is the        *)
(* Resolved Page Set of the (non-empty) expression, or 1..pageCount when   *)
(* no expression is supplied (4 pages: files for 1, 2, 3, 4).              *)
(***************************************************************************)
C6_OneFilePerSelectedPage ==
    (cmd = "split" /\ pc = "exited" /\ exit_status = 0) =>
        LET t == Tokens(args.pages)
            sel == IF args.pages_given /\ args.pages # <<>>
                   THEN UNION {Contribution(t[k]) : k \in 1..Len(t)}
                   ELSE 1..env.total_pages
        IN  /\ Len(written) = Cardinality(sel)
            /\ {written[i].pages[1] : i \in 1..Len(written)} = sel
            /\ \A i \in 1..Len(written) :
                   /\ Len(written[i].pages) = 1
                   /\ written[i].name =
                          args.prefix \o PyStr(written[i].pages[1]) \o <<".", "p", "d", "f">>
                   /\ i < Len(written) => written[i].pages[1] < written[i + 1].pages[1]
            /\ (~args.pages_given /\ env.total_pages = 4) =>
                   [i \in 1..Len(written) |-> written[i].pages[1]] = <<1, 2, 3, 4>>

\* the documented default: no expression, four pages, four files
C6_Witness ==
    /\ cmd = "split" /\ pc = "exited" /\ exit_status = 0
    /\ ~args.pages_given /\ env.total_pages = 4
    /\ Len(written) = 4

(***************************************************************************)
(* C7: in a merge, every input is processed whatever failed before it,     *)
(* each failing input gives exactly one warning, and the output written    *)
(* holds, in argument order, the pages of exactly the inputs that loaded;  *)
(* a failing input neither ends the run nor makes the exit status non-zero.*)
(***************************************************************************)
RECURSIVE PagesOfLoaded(_)
PagesOfLoaded(files) ==
    IF files = <<>> THEN <<>>
    ELSE (IF env[Head(files)].state = "ok"
          THEN DocPages(Head(files), env[Head(files)].pages) ELSE <<>>)
         \o PagesOfLoaded(Tail(files))

CountText(text) == Cardinality({k \in 1..Len(stderr) : stderr[k].text = text})

C7_MergeSkipsFailingInputs ==
    (cmd = "merge" /\ pc # "start" /\ ~Contains(args.inputs, args.output)) =>
        LET done == SubSeq(args.inputs, 1, locals.i - 1)
            failing == {k \in 1..Len(done) : env[done[k]].state # "ok"}
        IN  /\ locals.merger = PagesOfLoaded(done)
            /\ CountText("Adding") = Len(done)
            /\ CountText("Failed to add") = Cardinality(failing)
            /\ pc # "exited" => pc = "loop" /\ exit_status = 0
            /\ pc = "exited" =>
                   /\ done = args.inputs
                   /\ \/ /\ exit_status = 0
                         /\ written = <<[name |-> args.output,
                                         pages |-> PagesOfLoaded(args.inputs)]>>
                      \/ /\ exit_status = 1
                         /\ written = <<>>
                         /\ stderr[Len(stderr)] = Diag("error", "OSError")

\* a, then an input that fails, then c: written with a's pages and c's
C7_Witness ==
    /\ cmd = "merge" /\ pc = "exited" /\ exit_status = 0
    /\ Len(args.inputs) = 3
    /\ env[args.inputs[1]].state = "ok"
    /\ env[args.inputs[2]].state # "ok"
    /\ env[args.inputs[3]].state = "ok"
    /\ args.inputs[1] # args.inputs[3]
    /\ written # <<>>
    /\ CountText("Failed to add") = 1

(***************************************************************************)
(* C8: decrypt writes the output and exits with status zero exactly when   *)
(* the input is not encrypted or the password is accepted (and the output  *)
(* can be opened): with a wrong password on an encrypted input the run     *)
(* exits non-zero and never reaches the opening of the output; on an       *)
(* unencrypted input a warning is printed and all pages are copied,        *)
(* whatever the password.                                                  *)
(***************************************************************************)
PasswordAccepted == args.password \in {env.user_pw, env.owner_pw}

C8_DecryptWritesIffAccepted ==
    (cmd = "protect" /\ args.action = "decrypt" /\ env.state = "ok") =>
        /\ (env.encrypted /\ ~PasswordAccepted) =>
               /\ written = <<>>
               /\ pc \in {"start", "decrypt", "exited"}
               /\ pc = "exited" =>
                      /\ exit_status # 0
                      /\ stderr[Len(stderr)] = Diag("error", "Incorrect password")
        /\ (~env.encrypted \/ PasswordAccepted) =>
               /\ pc \in {"start", "decrypt", "write", "exited"}
               /\ pc = "exited" =>
                      \/ exit_status = 0 /\ written # <<>>
                      \/ /\ exit_status # 0 /\ written = <<>>
                         /\ stderr[Len(stderr)] = Diag("error", "OSError")
        /\ written # <<>> =>
               /\ pc = "exited" /\ exit_status = 0
               /\ written = <<[name |-> "output", pages |-> DocPages("in", env.pages),
                               password |-> ""]>>
        /\ (~env.encrypted /\ pc \in {"write", "exited"}) =>
               stderr[1] = Diag("warning", "PDF is not encrypted")

\* an encrypted input opened with its owner password, which is not its user password
C8_Witness ==
    /\ cmd = "protect" /\ args.action = "decrypt"
    /\ env.encrypted /\ args.password = env.owner_pw /\ args.password # env.user_pw
    /\ pc = "exited" /\ exit_status = 0 /\ written # <<>>

(***************************************************************************)
(* C9, as claimed: every run ends with status zero after its output and a  *)
(* confirmation message on the diagnostic stream, or with a non-zero       *)
(* status after an error diagnostic.                                       *)
(***************************************************************************)
HasDiag(kind) == \E k \in 1..Len(stderr) : stderr[k].kind = kind

\* the output of the run is there: the files of a split, the listing of a
\* form list, the one output file of any other command
OutputProduced ==
    IF cmd = "split" THEN Len(written) = Len(locals.page_numbers)
    ELSE IF cmd = "form" /\ args.command = "list" THEN stdout # <<>>
    ELSE Len(written) = 1

C9_Original ==
    pc = "exited" =>
        \/ exit_status = 0 /\ OutputProduced /\ HasDiag("confirm")
        \/ exit_status # 0 /\ HasDiag("error")

(***************************************************************************)
(* C9, amended: every run ends with status zero after its output and a     *)
(* confirmation message on the diagnostic stream, or with a non-zero       *)
(* status after an error diagnostic, but for three cases: extract-tables   *)
(* that finds no table ends with status zero after a warning, without      *)
(* output or confirmation; the form list subcommand ends with status zero  *)
(* after the listing on standard output, or after a notice that there are  *)
(* no fields, without a confirmation; the form command without subcommand  *)
(* ends with status 1 after the help text, without a diagnostic.           *)
(***************************************************************************)
C9_RunsEndConfirmedOrFailed ==
    pc = "exited" =>
        IF cmd = "tables" /\ exit_status = 0 /\ locals.tables = <<>>
        THEN /\ written = <<>> /\ ~HasDiag("confirm") /\ ~HasDiag("error")
             /\ stderr[Len(stderr)] = Diag("warning", "No tables found")
        ELSE IF cmd = "form" /\ args.command = "list" /\ exit_status = 0
        THEN /\ written = <<>> /\ ~HasDiag("confirm") /\ ~HasDiag("error")
             /\ \/ stdout # <<>> /\ stderr = <<>>
                \/ stdout = <<>> /\ stderr = <<Diag("notice", "No form fields found in PDF")>>
        ELSE IF cmd = "form" /\ args.command = "none"
        THEN exit_status = 1 /\ stderr = <<>> /\ stdout = <<"help">> /\ written = <<>>
        ELSE \/ /\ exit_status = 0 /\ OutputProduced
                /\ HasDiag("confirm") /\ ~HasDiag("error")
             \/ /\ exit_status # 0
                /\ stderr # <<>> /\ stderr[Len(stderr)].kind = "error"
                /\ ~HasDiag("confirm")

\* a merge whose inputs all failed to load: an output without pages, confirmed
C9_Witness ==
    /\ cmd = "merge" /\ pc = "exited" /\ exit_status = 0
    /\ \A k \in 1..Len(args.inputs) : env[args.inputs[k]].state # "ok"
    /\ Len(written) = 1 /\ written[1].pages = <<>>
    /\ HasDiag("confirm")

(***************************************************************************)
(* C10: the watermark merged onto every page of the output is rendered     *)
(* with the opacity, the rotation and the font size given on the command   *)
(* line.                                                                   *)
(***************************************************************************)
C10_WatermarkUsesOptions ==
    (cmd = "watermark" /\ pc = "exited" /\ exit_status = 0) =>
        \A k \in 1..Len(written[1].pages) :
            LET w == written[1].pages[k].merged
            IN  /\ w.gray = args.opacity
                /\ w.rotation = args.rotation
                /\ w.font_size = args.font_size

(***************************************************************************)
(* C11: the outcome of parse_page_ranges depends on the set of its tokens  *)
(* alone: the tokens in any other order, or with any token repeated, give  *)
(* the same returned sequence when the expression succeeds and fail when   *)
(* it fails; "1-3,2-4" with 4 pages gives each of 1, 2, 3, 4 once.         *)
(***************************************************************************)
Orderings(n) == {p \in [1..n -> 1..n] : \A i, j \in 1..n : p[i] = p[j] => i = j}

\* success with the same pages, or failure on both sides
SameOutcome(a, b) ==
    /\ (a.raised = "none") = (b.raised = "none")
    /\ a.raised = "none" => a.value = b.value

C11_OrderAndMultiplicityIrrelevant ==
    JustSelected =>
        LET t == Tokens(args.pages)
            n == locals.total_pages
        IN  /\ \A p \in Orderings(Len(t)) :
                   SameOutcome(SelectOutcome,
                               parse_page_ranges(Join([i \in 1..Len(t) |-> t[p[i]]]), n))
            /\ \A k \in 1..Len(t) :
                   /\ SameOutcome(SelectOutcome, parse_page_ranges(Join(t \o <<t[k]>>), n))
                   /\ SameOutcome(SelectOutcome, parse_page_ranges(Join(<<t[k]>> \o t), n))
            /\ (args.pages = <<"1", "-", "3", ",", "2", "-", "4">> /\ n = 4) =>
                   pc = "loop" /\ locals.page_numbers = <<1, 2, 3, 4>>

\* two different tokens that overlap, the later one starting lower, resolved
C11_Witness ==
    /\ JustSelected /\ pc = "loop"
    /\ LET t == Tokens(args.pages)
       IN  /\ Len(t) >= 2 /\ t[1] # t[2]
           /\ Contribution(t[1]) \cap Contribution(t[2]) # {}
           /\ \E x \in Contribution(t[2]) : \A y \in Contribution(t[1]) : x < y

====
